---- MODULE Spec2Model ----
(***************************************************************************)
(* A model of apollo-server: the middleware based RequestHandler           *)
(* (lib/RequestHandler.js) and the Server wrapper around a node server     *)
(* (lib/Server.js).                                                        *)
(*                                                                         *)
(* JavaScript arrays are objects, so the model keeps a heap of arrays      *)
(* (arrays) and every holder of an array keeps a reference into it: the    *)
(* registered list this.middleware is one array, the queue handed to       *)
(* handleRequest is whatever reference handle passes.                      *)
(*                                                                         *)
(* Every handleRequest activation of a handle call is one entry of         *)
(* frames[c], in the order the activations were made.  The middleware      *)
(* units are the environment: an invoked unit may return a response,       *)
(* throw, call next and await the promise it returns, and resume when that *)
(* promise has settled.  Steps of different calls interleave freely, as    *)
(* they do at the suspension points of the units.                          *)
(*                                                                         *)
(* Strings the program takes apart or puts together (header values, the    *)
(* joined header line) are sequences of characters.                        *)
(***************************************************************************)
EXTENDS Naturals, Sequences, FiniteSets

\* ---------------------------------------------------------------- bounds
\* the longest registered middleware list
MaxMiddleware == 3
\* the number of handle calls
MaxCalls == 2
\* the number of times the units of one handle call call next again after
\* their first call of it
MaxExtraNext == 1
\* the number of start and stop calls made on the Server
MaxOps == 3
\* the number of "request" events the node server emits
MaxEvents == 2
\* the number of name/value pairs in rawHeaders
MaxPairs == 2
\* the number of headers of a response, and of values of one header
MaxHeaders == 2
MaxValues == 2

\* ------------------------------------------------------------ value sets
\* the middleware units are distinct objects, named by the order in which
\* they are passed to addMiddleware
Units == 1 .. MaxMiddleware
Requests == {"r1", "r2"}
\* the unit of an activation that found the queue empty
NoUnit == 0
None == [type |-> "none"]
Calls == 1 .. MaxCalls

\* the array object held by this.middleware
MiddlewareRef == 0
\* the RequestHandler instance
This == [t |-> "RequestHandler"]

\* the error thrown on an empty queue
NoMiddlewareError ==
    [type |-> "error", msg |-> "No middleware available to process request"]
\* the results a unit makes itself
OwnResponse(c, k) ==
    [type |-> "response", call |-> c, by |-> k, statusCode |-> 200,
     reasonPhrase |-> "OK", headers |-> <<>>, body |-> "body"]
OwnError(c, k) == [type |-> "error", call |-> c, by |-> k]

VARIABLES
    arrays,     \* heap of array objects: reference -> sequence of units
    added,      \* history: the units passed to addMiddleware, in call order
    callSt,     \* per handle call: "idle", "pending", "resolved", "rejected"
    callReq,    \* per handle call: the request passed to handle
    atStart,    \* history: the registered list when handle was called
    queueRef,   \* per handle call: the array handed to handleRequest
    frames,     \* per handle call: the handleRequest activations, in order
    outcome,    \* per handle call: what the promise returned by handle settled with
    returned,   \* history: what each addMiddleware call returned
    ways        \* history, per handle call: how the units called next

VARIABLES
    nodeServer, \* Server.nodeServer: the kind of node server it is
    urlScheme,  \* Server.urlScheme
    nodeCalls,  \* the calls the Server has made on its node server
    serverOps,  \* history: the start and stop calls made on the Server
    evSt,       \* per "request" event: "none", "awaiting", "written", "failed"
    evIn,       \* per "request" event: the incoming message req
    evRequest,  \* per "request" event: the Requests handle was called with
    handled,    \* per "request" event: what requestHandler.handle settled with
    sink        \* per "request" event: the calls made on res

VARIABLES
    serverFactory,  \* ServerBuilder.serverFactory
    startupClass,   \* ServerBuilder.startupClass
    configuration,  \* ServerBuilder.configuration
    logger,         \* ServerBuilder.logger
    container,      \* the names bound in the container of build(), in order
    startupInstance,\* the startupInstance of build()
    buildSt,        \* build(): "idle", "configuration", "startup", "resolved", "rejected"
    buildOut        \* what the promise returned by build() settled with

hvars == <<arrays, added, callSt, callReq, atStart, queueRef, frames, outcome,
          returned, ways>>
svars == <<nodeServer, urlScheme, nodeCalls, serverOps, evSt, evIn, evRequest, handled, sink>>
bvars == <<serverFactory, startupClass, configuration, logger, container,
          startupInstance, buildSt, buildOut>>
vars == <<hvars, svars, bvars>>

\* ------------------------------------------------- RequestHandler.js
\* constructor: this.middleware = []
RequestHandlerInit ==
    /\ arrays = [r \in {MiddlewareRef} \cup Calls |-> <<>>]
    /\ added = <<>>
    /\ callSt = [c \in Calls |-> "idle"]
    /\ callReq = [c \in Calls |-> None]
    /\ atStart = [c \in Calls |-> <<>>]
    /\ queueRef = [c \in Calls |-> c]
    /\ frames = [c \in Calls |-> <<>>]
    /\ outcome = [c \in Calls |-> None]
    /\ returned = <<>>
    /\ ways = [c \in Calls |-> <<>>]

\* Array.prototype.push on the array `ref`
Unshift(heap, ref, x) == [heap EXCEPT ![ref] = <<x>> \o @]
Push(heap, ref, x) == [heap EXCEPT ![ref] = Append(@, x)]

\* addMiddleware(middleware): this.middleware.push(middleware); return this
AddMiddleware(u) ==
    /\ u = Len(added) + 1
    /\ arrays' = Push(arrays, MiddlewareRef, u)
    /\ added' = Append(added, u)
    /\ returned' = Append(returned, This)
    /\ UNCHANGED <<callSt, callReq, atStart, queueRef, frames, outcome, ways, svars,
                   bvars>>

\* this.middleware.slice(): a new array object (stored at `fresh`) with the
\* elements of this.middleware; the result names the array and the new heap
SliceAliased(heap, fresh) == [ref |-> MiddlewareRef, heap |-> heap]
SliceShared(heap, fresh) ==
    [ref |-> 1, heap |-> [heap EXCEPT ![1] = heap[MiddlewareRef]]]
Slice(heap, fresh) ==
    [ref |-> fresh, heap |-> [heap EXCEPT ![fresh] = heap[MiddlewareRef]]]

\* Array.prototype.shift: the first element, and the array without it
Pop(q) == [unit |-> q[Len(q)], rest |-> SubSeq(q, 1, Len(q) - 1)]
Peek(q) == [unit |-> Head(q), rest |-> q]
Shift(q) == [unit |-> Head(q), rest |-> Tail(q)]

\* the empty queue: throw new Error("No middleware available ...") inside
\* the async function, so the promise it returns is rejected
EmptyQueueReturns ==
    [st |-> "returned", out |-> [type |-> "response", msg |-> "undefined"]]
EmptyQueueTypeError ==
    [st |-> "threw", out |-> [type |-> "error", msg |-> "TypeError"]]
EmptyQueue == [st |-> "threw", out |-> NoMiddlewareError]

\* the request handed to process by handleRequest(request, middleware)
ForwardOriginal(c, request) == callReq[c]
Forwarded(c, request) == request

\* the awaited promise of process settles handleRequest's own promise
\* (return await ...): when, and with what
SettledAtOnce(f) == TRUE
NeverSettled(f) == FALSE
HandleRequestSettled(f) == f.st \in {"returned", "threw"}

WrappedOutcome(f) ==
    IF f.out.type = "error" THEN [type |-> "error", msg |-> "wrapped"] ELSE f.out
HandleRequestOutcome(f) == f.out

\* async handleRequest(request, middleware), up to the first suspension:
\* throws on an empty queue, otherwise shifts the head unit off the queue
\* and invokes its process with the request.  The result tells the unit
\* invoked, the request it is given, the state of the activation and the heap.
HandleRequest(heap, c, ref, request) ==
    IF Len(heap[ref]) = 0
    THEN [unit |-> NoUnit, req |-> None, st |-> EmptyQueue.st,
          out |-> EmptyQueue.out, heap |-> heap]
    ELSE LET s == Shift(heap[ref])
         IN [unit |-> s.unit, req |-> Forwarded(c, request), st |-> "running",
             out |-> None, heap |-> [heap EXCEPT ![ref] = s.rest]]

\* the record of one activation: parent is the activation whose unit called
\* next (0: handle itself), arg the request that caller passed
Activation(h, parent, arg) ==
    [unit |-> h.unit, req |-> h.req, st |-> h.st, out |-> h.out,
     parent |-> parent, arg |-> IF h.unit = NoUnit THEN None ELSE arg,
     waitOn |-> 0, got |-> None, gotFrom |-> 0]

\* handle(request): return this.handleRequest(request, this.middleware.slice())
HandleCall(c, request) ==
    /\ callSt[c] = "idle"
    /\ \A d \in Calls : d < c => callSt[d] # "idle"
    /\ LET s == Slice(arrays, c)
           h == HandleRequest(s.heap, c, s.ref, request)
       IN /\ arrays' = h.heap
          /\ queueRef' = [queueRef EXCEPT ![c] = s.ref]
          /\ frames' = [frames EXCEPT ![c] = <<Activation(h, 0, request)>>]
    /\ callSt' = [callSt EXCEPT ![c] = "pending"]
    /\ callReq' = [callReq EXCEPT ![c] = request]
    /\ atStart' = [atStart EXCEPT ![c] = arrays[MiddlewareRef]]
    /\ UNCHANGED <<added, outcome, returned, ways>>

Handle(c, request) == HandleCall(c, request) /\ UNCHANGED <<svars, bvars>>

\* the number of times the unit of activation k has called next
NextCalls(c, k) ==
    Cardinality({j \in 1 .. Len(frames[c]) : frames[c][j].parent = k})

\* a running unit calls next(request): the proxy created by
\* createRequestHandler runs request => this.handleRequest(request, middleware)
\* on the queue of this call; the unit awaits the promise
NextStep(c, k, request) ==
    /\ callSt[c] # "idle"
    /\ k \in 1 .. Len(frames[c])
    /\ frames[c][k].st = "running"
    /\ LET h == HandleRequest(arrays, c, queueRef[c], request)
           j == Len(frames[c]) + 1
       IN /\ arrays' = h.heap
          /\ frames' = [frames EXCEPT ![c] =
                Append([@ EXCEPT ![k].st = "waiting", ![k].waitOn = j],
                       Activation(h, k, request))]

CallNext(c, k, request) ==
    /\ NextStep(c, k, request)
    /\ UNCHANGED <<added, callSt, callReq, atStart, queueRef, outcome, returned, ways,
                   svars, bvars>>

\* the function handed to createRequestHandler: request =>
\* this.handleRequest(request, middleware), closed over the queue of the call
HandlerFunction(c) == [t |-> "function", queue |-> queueRef[c]]
\* createRequestHandler(handlerFunction):
\* new Proxy(handlerFunction, {get: target => target})
CreateRequestHandler(handlerFunction) == [t |-> "proxy", target |-> handlerFunction]
\* the get trap: reading any property of the proxy gives the target
NoGetTrap(target, property) == [t |-> "undefined"]
GetTrap(target, property) == target
\* the two ways a unit has of calling the next handler it was given
Ways == {"next(request)", "next.handle(request)"}
\* what is called in the end: a call of the proxy goes to its target (there
\* is no apply trap), a call of next.handle to what the get trap gives
Callee(next, way) ==
    IF way = "next(request)" THEN next.target ELSE GetTrap(next.target, "handle")
\* calling what is not a function throws inside the unit
NextNotAFunction == [type |-> "error", msg |-> "TypeError"]

\* a running unit calls the next handler in one of the two ways and awaits
\* the promise
CallNextVia(c, k, request, way) ==
    /\ IF Callee(CreateRequestHandler(HandlerFunction(c)), way).t = "function"
       THEN NextStep(c, k, request)
       ELSE /\ callSt[c] # "idle"
            /\ k \in 1 .. Len(frames[c])
            /\ frames[c][k].st = "running"
            /\ frames' = [frames EXCEPT ![c][k].st = "threw",
                                        ![c][k].out = NextNotAFunction]
            /\ UNCHANGED arrays
    /\ ways' = [ways EXCEPT ![c] = Append(@, way)]
    /\ UNCHANGED <<added, callSt, callReq, atStart, queueRef, outcome, returned,
                   svars, bvars>>

\* the unit's await of next(...) resumes once handleRequest's promise settled
Resume(c, k) ==
    /\ k \in 1 .. Len(frames[c])
    /\ frames[c][k].st = "waiting"
    /\ LET child == frames[c][frames[c][k].waitOn]
       IN /\ HandleRequestSettled(child)
          /\ frames' = [frames EXCEPT ![c][k].st = "running",
                                      ![c][k].got = HandleRequestOutcome(child),
                                      ![c][k].gotFrom = frames[c][k].waitOn,
                                      ![c][k].waitOn = 0]
    /\ UNCHANGED <<arrays, added, callSt, callReq, atStart, queueRef, outcome, returned, ways,
                   svars, bvars>>

\* what a running unit may settle its process with: a response or an error
\* of its own, or the response or error it got from next
UnitResults(c, k) ==
    {OwnResponse(c, k), OwnError(c, k)} \cup ({frames[c][k].got} \ {None})

UnitSettle(c, k, result) ==
    /\ k \in 1 .. Len(frames[c])
    /\ frames[c][k].st = "running"
    /\ result \in UnitResults(c, k)
    /\ frames' = [frames EXCEPT
            ![c][k].st = IF result.type = "response" THEN "returned" ELSE "threw",
            ![c][k].out = result]
    /\ UNCHANGED <<arrays, added, callSt, callReq, atStart, queueRef, outcome, returned, ways,
                   svars, bvars>>

\* the promise returned by handle is the promise of the first activation
HandleSettle(c) ==
    /\ callSt[c] = "pending"
    /\ HandleRequestSettled(frames[c][1])
    /\ LET o == HandleRequestOutcome(frames[c][1])
       IN /\ outcome' = [outcome EXCEPT ![c] = o]
          /\ callSt' = [callSt EXCEPT ![c] =
                IF o.type = "response" THEN "resolved" ELSE "rejected"]
    /\ UNCHANGED <<arrays, added, callReq, atStart, queueRef, frames, returned, ways,
                   svars, bvars>>

\* the number of next calls of a handle call beyond each unit's first
ExtraNext(c) ==
    Cardinality({j \in 1 .. Len(frames[c]) : frames[c][j].parent # 0})
    - Cardinality({k \in 1 .. Len(frames[c]) : NextCalls(c, k) > 0})

\* ------------------------------------------------------------ Server.js
Events == 1 .. MaxEvents
Undefined == [t |-> "undefined"]
Number(n) == [t |-> "number", v |-> n]
Ports == {Undefined, Number(3000)}
ServerKinds == {"http", "https"}

SeqsUpTo(S, n) == UNION {[1 .. k -> S] : k \in 0 .. n}

\* what the node server hands over with a "request" event
Methods == {"GET"}
Targets == {"/"}
Hosts == {"localhost"}
HeaderNames == {"X-A", "X-B"}
RawValues == {"1", "3"}
\* rawHeaders: the name/value pairs as one flat alternating array
Flat(pairs) ==
    [i \in 1 .. 2 * Len(pairs) |->
        IF i % 2 = 1 THEN pairs[(i + 1) \div 2][1] ELSE pairs[i \div 2][2]]
RawHeaderLists == {Flat(ps) : ps \in SeqsUpTo(HeaderNames \X RawValues, MaxPairs)}
IncomingMessages ==
    [method : Methods, url : Targets, host : Hosts, rawHeaders : RawHeaderLists]
PlainMessage ==
    [method |-> "GET", url |-> "/", host |-> "localhost",
     rawHeaders |-> <<"X-A", "1">>]

\* the responses a request handler may answer with: headers is an object,
\* its entries (name, array of values) in property order
HeaderValues == {<<"1">>, <<"3">>}
ValueLists == SeqsUpTo(HeaderValues, MaxValues)
HeaderObjects ==
    {h \in SeqsUpTo(HeaderNames \X ValueLists, MaxHeaders) :
        \A i, j \in 1 .. Len(h) : h[i][1] = h[j][1] => i = j}
Statuses == {<<200, "OK">>}
Responses ==
    {[type |-> "response", statusCode |-> st[1], reasonPhrase |-> st[2],
      headers |-> h, body |-> "body"] : st \in Statuses, h \in HeaderObjects}
PlainResponse ==
    [type |-> "response", statusCode |-> 200, reasonPhrase |-> "OK",
     headers |-> <<<<"X-A", <<<<"1">>>>>>>>, body |-> "body"]
HandlerError == [type |-> "error", msg |-> "handle failed"]

\* the state of the variables of the Server while no Server is built
NoServer ==
    /\ nodeServer = "none"
    /\ urlScheme = "none"
    /\ nodeCalls = <<>>
    /\ serverOps = <<>>
    /\ evSt = [e \in Events |-> "none"]
    /\ evIn = [e \in Events |-> None]
    /\ evRequest = [e \in Events |-> <<>>]
    /\ handled = [e \in Events |-> None]
    /\ sink = [e \in Events |-> <<>>]

\* this.nodeServer instanceof HttpsServer ? "https" : "http"
AlwaysHttp(kind) == "http"
UrlScheme(kind) == IF kind = "https" THEN "https" ELSE "http"

\* the observers the constructor registers on the node server
Observers ==
    <<[fn |-> "on", args |-> <<"listening">>],
      [fn |-> "on", args |-> <<"close">>],
      [fn |-> "on", args |-> <<"request">>]>>

\* constructor(nodeServer, requestHandler, requestFactory, logger)
ServerInit ==
    /\ nodeServer \in ServerKinds
    /\ urlScheme = UrlScheme(nodeServer)
    /\ nodeCalls = Observers
    /\ serverOps = <<>>
    /\ evSt = [e \in Events |-> "none"]
    /\ evIn = [e \in Events |-> None]
    /\ evRequest = [e \in Events |-> <<>>]
    /\ handled = [e \in Events |-> None]
    /\ sink = [e \in Events |-> <<>>]

\* start(port): this.nodeServer.listen(port)
StartIgnoresPort(port) == <<[fn |-> "listen", args |-> <<>>]>>
StartCalls(port) == <<[fn |-> "listen", args |-> <<port>>]>>

Start(port) ==
    /\ Len(serverOps) < MaxOps
    /\ nodeCalls' = nodeCalls \o StartCalls(port)
    /\ serverOps' = Append(serverOps, [op |-> "start", port |-> port])
    /\ UNCHANGED <<nodeServer, urlScheme, evSt, evIn, evRequest, handled, sink, hvars, bvars>>

\* stop(): this.nodeServer.close()
StopClosesTwice ==
    <<[fn |-> "close", args |-> <<>>], [fn |-> "close", args |-> <<>>]>>
StopCalls == <<[fn |-> "close", args |-> <<>>]>>

StopAborting ==
    /\ Len(serverOps) < MaxOps
    /\ nodeCalls' = nodeCalls \o StopCalls
    /\ serverOps' = Append(serverOps, [op |-> "stop", port |-> Undefined])
    /\ evSt' = [e \in Events |-> IF evSt[e] = "awaiting" THEN "failed" ELSE evSt[e]]
    /\ UNCHANGED <<nodeServer, urlScheme, evIn, evRequest, handled, sink, hvars, bvars>>
Stop ==
    /\ Len(serverOps) < MaxOps
    /\ nodeCalls' = nodeCalls \o StopCalls
    /\ serverOps' = Append(serverOps, [op |-> "stop", port |-> Undefined])
    /\ UNCHANGED <<nodeServer, urlScheme, evSt, evIn, evRequest, handled, sink, hvars, bvars>>

\* requestFactory.createRequest(method, url), withBody and withHeader belong
\* to apollo-http: the model keeps the Request as what was asked of it, the
\* withHeader calls in the order they were made
CreateRequest(method, url) ==
    [method |-> method, url |-> url, body |-> None, withHeader |-> <<>>]
WithBody(request, body) == [request EXCEPT !.body = body]
WithHeader(request, name, value) ==
    [request EXCEPT !.withHeader = Append(@, <<name, value>>)]

\* for (let i = 0; i < req.rawHeaders.length; i += 2)
\*     request = request.withHeader(req.rawHeaders[i], req.rawHeaders[i + 1])
RECURSIVE FoldHeaders(_, _, _)
FoldHeaders(request, raw, i) ==
    IF i < Len(raw)
    THEN FoldHeaders(WithHeader(request, raw[i + 1], raw[i + 2]), raw, i + 2)
    ELSE request

\* the Request built from the incoming message
BuildRequest(e, req) ==
    FoldHeaders(
        WithBody(CreateRequest(req.method,
                               <<urlScheme, "://", req.host, req.url>>),
                 [stream |-> e]),
        req.rawHeaders, 0)

\* Array.prototype.join: the values with the separator between them
RECURSIVE JoinFrom(_, _, _, _)
JoinFrom(values, sep, i, acc) ==
    IF i > Len(values) THEN acc
    ELSE JoinFrom(values, sep, i + 1,
                  IF i = 1 THEN values[i] ELSE acc \o sep \o values[i])
JoinDropsLast(values, sep) ==
    JoinFrom(SubSeq(values, 1, Len(values) - 1), sep, 1, <<>>)
Join(values, sep) == JoinFrom(values, sep, 1, <<>>)

\* {...headers, [name]: value}: the property keeps its place if the object
\* has it, and is added at the end otherwise
SetProperty(obj, name, value) ==
    IF \E i \in 1 .. Len(obj) : obj[i][1] = name
    THEN [i \in 1 .. Len(obj) |->
            IF obj[i][1] = name THEN <<name, value>> ELSE obj[i]]
    ELSE Append(obj, <<name, value>>)

\* Object.entries(response.headers).reduce((headers, [name, values]) =>
\*     ({...headers, [name]: values.join(",")}), {})
RECURSIVE ReduceHeaders(_, _, _)
ReduceHeaders(entries, i, acc) ==
    IF i > Len(entries) THEN acc
    ELSE ReduceHeaders(entries, i + 1,
            SetProperty(acc, entries[i][1], Join(entries[i][2], <<",">>)))
SerializeHeaders(headers) == ReduceHeaders(headers, 1, <<>>)

\* handleRequest(req, res) up to its await: build the Request and call
\* this.requestHandler.handle(request)
ServerReceive(e, req) ==
    /\ evSt[e] = "none"
    /\ \A d \in Events : d < e => evSt[d] # "none"
    /\ evIn' = [evIn EXCEPT ![e] = req]
    /\ evRequest' = [evRequest EXCEPT ![e] = Append(@, BuildRequest(e, req))]
    /\ evSt' = [evSt EXCEPT ![e] = "awaiting"]
    /\ UNCHANGED <<nodeServer, urlScheme, nodeCalls, serverOps, handled, sink>>

\* the same over a request handler that is not looked into
ServerHandleRequest(e, req) == ServerReceive(e, req) /\ UNCHANGED <<hvars, bvars>>

\* the same over a RequestHandler: the handle call of the event is call e
Dispatch(e, req) ==
    /\ ServerReceive(e, req)
    /\ HandleCall(e, BuildRequest(e, req))
    /\ UNCHANGED bvars

\* the promise of this.requestHandler.handle(request) settles; the Server
\* takes any request handler, so with any response or with an error
HandlerSettles(e, result) ==
    /\ evSt[e] = "awaiting"
    /\ handled[e] = None
    /\ handled' = [handled EXCEPT ![e] = result]
    /\ UNCHANGED <<nodeServer, urlScheme, nodeCalls, serverOps, evSt, evIn, evRequest, sink, hvars, bvars>>

\* response.body.pipe(res); res.writeHead(statusCode, reasonPhrase, headers):
\* the calls made on res
WritesHeadOnly(response) ==
    <<[fn |-> "writeHead",
       args |-> <<response.statusCode, response.reasonPhrase,
                  SerializeHeaders(response.headers)>>]>>
SinkCalls(response) ==
    <<[fn |-> "pipe", args |-> <<response.body>>],
      [fn |-> "writeHead",
       args |-> <<response.statusCode, response.reasonPhrase,
                  SerializeHeaders(response.headers)>>]>>

\* handleRequest after its await, the response being there
ServerRespond(e) ==
    /\ evSt[e] = "awaiting"
    /\ handled[e].type = "response"
    /\ sink' = [sink EXCEPT ![e] = @ \o SinkCalls(handled[e])]
    /\ evSt' = [evSt EXCEPT ![e] = "written"]
    /\ UNCHANGED <<nodeServer, urlScheme, nodeCalls, serverOps, evIn, evRequest, handled, hvars, bvars>>

\* handleRequest after its await, handle having failed: the await throws
\* and the promise of handleRequest, which nobody holds, is rejected
ServerFallback(e) ==
    /\ evSt[e] = "awaiting"
    /\ handled[e].type = "error"
    /\ sink' = [sink EXCEPT ![e] =
            @ \o <<[fn |-> "writeHead", args |-> <<500, "Internal Server Error", <<>>>>]>>]
    /\ evSt' = [evSt EXCEPT ![e] = "written"]
    /\ UNCHANGED <<nodeServer, urlScheme, nodeCalls, serverOps, evIn, evRequest, handled, hvars, bvars>>
ServerFail(e) ==
    /\ evSt[e] = "awaiting"
    /\ handled[e].type = "error"
    /\ evSt' = [evSt EXCEPT ![e] = "failed"]
    /\ UNCHANGED <<nodeServer, urlScheme, nodeCalls, serverOps, evIn, evRequest, handled, sink, hvars, bvars>>

\* ------------------------------------------------------- ServerBuilder.js
\* a NodeServerFactory: a function that returns a node server of some kind
Factory(kind) == [t |-> "function", returns |-> kind]
ServerFactories == {Factory(kind) : kind \in ServerKinds}
\* a startup class: its configure completes or throws
StartupClasses == {[t |-> "class", configure |-> c] : c \in {"completes", "throws"}}
Given == [t |-> "object"]

NoServerFactoryError == [type |-> "error", msg |-> "No server factory provided"]
StartupError == [type |-> "error", msg |-> "configure failed"]

\* constructor(): the fields are declared and left undefined
ServerBuilderInit ==
    /\ serverFactory = Undefined
    /\ startupClass = Undefined
    /\ configuration = Undefined
    /\ logger = Undefined
    /\ container = <<>>
    /\ startupInstance = Undefined
    /\ buildSt = "idle"
    /\ buildOut = None

\* the state of the variables of the builder while no builder is used
NoBuilder == ServerBuilderInit

UseServerFactory(f) ==
    /\ serverFactory' = f
    /\ UNCHANGED <<startupClass, configuration, logger, container, buildSt,
                   startupInstance, buildOut, hvars, svars>>

UseStartupClass(constructor) ==
    /\ startupClass' = constructor
    /\ UNCHANGED <<serverFactory, configuration, logger, container, buildSt,
                   startupInstance, buildOut, hvars, svars>>

UseConfiguration(c) ==
    /\ configuration' = c
    /\ UNCHANGED <<serverFactory, startupClass, logger, container, buildSt,
                   startupInstance, buildOut, hvars, svars>>

UseLogger(l) ==
    /\ logger' = l
    /\ UNCHANGED <<serverFactory, startupClass, configuration, container, buildSt,
                   startupInstance, buildOut, hvars, svars>>

\* build() up to await this.createConfiguration()
Build ==
    /\ buildSt = "idle"
    /\ container' = <<"container", "serverBuilder", "requestHandler">>
    /\ buildSt' = "configuration"
    /\ UNCHANGED <<serverFactory, startupClass, configuration, logger,
                   startupInstance, buildOut, hvars, svars>>

\* if (!this.serverFactory)
ServerFactoryNeverMissing(factory) == FALSE
ServerFactoryMissing(factory) == factory = Undefined

\* calling what is not a function
NotAFunction == [type |-> "error", msg |-> "TypeError"]

\* the end of build(), `bound` being the names bound so far: throw without
\* a server factory, otherwise construct the Server over the node server the
\* factory returns, bind and return it
BuildServer(bound) ==
    IF ServerFactoryMissing(serverFactory)
    THEN /\ buildSt' = "rejected"
         /\ buildOut' = NoServerFactoryError
         /\ container' = bound
         /\ UNCHANGED <<nodeServer, urlScheme, nodeCalls>>
    ELSE IF serverFactory.t # "function"
    THEN /\ buildSt' = "rejected"
         /\ buildOut' = NotAFunction
         /\ container' = bound
         /\ UNCHANGED <<nodeServer, urlScheme, nodeCalls>>
    ELSE /\ nodeServer' = serverFactory.returns
         /\ urlScheme' = UrlScheme(serverFactory.returns)
         /\ nodeCalls' = Observers
         /\ container' = Append(bound, "server")
         /\ buildSt' = "resolved"
         /\ buildOut' = [type |-> "server"]

\* build() from the configuration being there to the await of the startup
\* instance's configure, or to its end when there is no startup class
BuildConfigured ==
    /\ buildSt = "configuration"
    /\ LET bound == container \o <<"configuration", "logger", "requestFactory",
                                    "responseFactory", "streamFactory", "urlFactory">>
       IN IF startupClass # Undefined
          THEN /\ startupInstance' = startupClass
               /\ container' = bound
               /\ buildSt' = "startup"
               /\ UNCHANGED <<nodeServer, urlScheme, nodeCalls, buildOut>>
          ELSE /\ BuildServer(bound)
               /\ UNCHANGED startupInstance
    /\ UNCHANGED <<serverFactory, startupClass, configuration, logger, serverOps,
                   evSt, evIn, evRequest, handled, sink, hvars>>

\* build() after the await of configure: it fails with what configure
\* threw, or goes on to its end
BuildStarted ==
    /\ buildSt = "startup"
    /\ IF startupInstance.configure = "throws"
       THEN /\ buildSt' = "rejected"
            /\ buildOut' = StartupError
            /\ UNCHANGED <<nodeServer, urlScheme, nodeCalls, container>>
       ELSE BuildServer(container)
    /\ UNCHANGED <<serverFactory, startupClass, configuration, logger,
                   startupInstance, serverOps, evSt, evIn, evRequest, handled,
                   sink, hvars>>

\* A builder used as a program uses it: set up, built once, and the Server
\* it returned started and given "request" events.
InitBuilder == RequestHandlerInit /\ NoServer /\ ServerBuilderInit
Built == buildSt = "resolved"

NextBuilder ==
    \/ \E f \in ServerFactories : UseServerFactory(f)
    \/ \E c \in StartupClasses : UseStartupClass(c)
    \/ UseConfiguration(Given)
    \/ UseLogger(Given)
    \/ Build
    \/ BuildConfigured
    \/ BuildStarted
    \/ \E port \in Ports : Built /\ Start(port)
    \/ Built /\ ServerHandleRequest(1, PlainMessage)
    \/ \E r \in {PlainResponse, HandlerError} : HandlerSettles(1, r)
    \/ ServerRespond(1)
    \/ ServerFail(1)

SpecBuilder == InitBuilder /\ [][NextBuilder]_vars

Init == RequestHandlerInit /\ NoServer /\ NoBuilder

\* One handle call whose units do whatever a unit can do: forward a changed
\* request, call next more than once, answer with a result of their own or
\* with the one they got.
NextChain ==
    \/ \E u \in Units : AddMiddleware(u)
    \/ Handle(1, "r1")
    \/ \E k \in 1 .. Len(frames[1]), r \in Requests :
          /\ NextCalls(1, k) = 0 \/ ExtraNext(1) < MaxExtraNext
          /\ CallNext(1, k, r)
    \/ \E k \in 1 .. Len(frames[1]) : Resume(1, k)
    \/ \E k \in 1 .. Len(frames[1]) :
          \E res \in UnitResults(1, k) : UnitSettle(1, k, res)
    \/ HandleSettle(1)

SpecChain == Init /\ [][NextChain]_vars

\* One handle call whose units call the next handler either way, once each,
\* with the request they choose.
NextProxy ==
    \/ \E u \in Units : AddMiddleware(u)
    \/ Handle(1, "r1")
    \/ \E k \in 1 .. Len(frames[1]), r \in Requests, way \in Ways :
          /\ NextCalls(1, k) = 0
          /\ CallNextVia(1, k, r, way)
    \/ \E k \in 1 .. Len(frames[1]) : Resume(1, k)
    \/ \E k \in 1 .. Len(frames[1]) :
          \E res \in UnitResults(1, k) : UnitSettle(1, k, res)
    \/ HandleSettle(1)

SpecProxy == Init /\ [][NextProxy]_vars

\* Overlapping handle calls whose units keep to the protocol: they answer
\* with a response of their own or call next once, with the request they
\* were given, and hand back what they got from it.  Every call carries the
\* same request: what the units do to a request and how they fail is the
\* subject of SpecChain.
Next ==
    \/ \E u \in Units : AddMiddleware(u)
    \/ \E c \in Calls : Handle(c, "r1")
    \/ \E c \in Calls : \E k \in 1 .. Len(frames[c]) :
          /\ NextCalls(c, k) = 0
          /\ CallNext(c, k, frames[c][k].req)
    \/ \E c \in Calls : \E k \in 1 .. Len(frames[c]) : Resume(c, k)
    \/ \E c \in Calls : \E k \in 1 .. Len(frames[c]) :
          \E res \in UnitResults(c, k) :
              /\ res = IF frames[c][k].got # None THEN frames[c][k].got
                       ELSE OwnResponse(c, k)
              /\ UnitSettle(c, k, res)
    \/ \E c \in Calls : HandleSettle(c)

Spec == Init /\ [][Next]_vars

\* The same calls with units that do what they do in the end (a unit that
\* was invoked returns, throws or calls next, and one that got the result of
\* next returns or throws), and the JavaScript job queue, which runs every
\* continuation of a settled promise.
UnitStep(c) ==
    \E k \in 1 .. Len(frames[c]) :
        \/ NextCalls(c, k) = 0 /\ CallNext(c, k, frames[c][k].req)
        \/ \E res \in UnitResults(c, k) :
              /\ res = IF frames[c][k].got # None THEN frames[c][k].got
                       ELSE OwnResponse(c, k)
              /\ UnitSettle(c, k, res)
Continuation(c) ==
    \/ \E k \in 1 .. Len(frames[c]) : Resume(c, k)
    \/ HandleSettle(c)

\* as long as a unit or a continuation can take a step, one is taken
Fairness == WF_vars(\E c \in Calls : UnitStep(c) \/ Continuation(c))

\* the list is registered before the first handle call
NextFair ==
    \/ \E u \in Units : callSt[1] = "idle" /\ AddMiddleware(u)
    \/ \E c \in Calls : Handle(c, "r1")
    \/ \E c \in Calls : UnitStep(c)
    \/ \E c \in Calls : Continuation(c)

SpecFair == Init /\ [][NextFair]_vars /\ Fairness

\* A Server over any request handler: start, stop and "request" events with
\* a plain message and a plain answer.
InitServer == RequestHandlerInit /\ ServerInit /\ NoBuilder

NextServer ==
    \/ \E port \in Ports : Start(port)
    \/ Stop
    \/ \E e \in Events : ServerHandleRequest(e, PlainMessage)
    \/ \E e \in Events, r \in {PlainResponse, HandlerError} : HandlerSettles(e, r)
    \/ \E e \in Events : ServerRespond(e)
    \/ \E e \in Events : ServerFail(e)

SpecServer == InitServer /\ [][NextServer]_vars

\* One "request" event with any incoming message and any answer.
NextAdapter ==
    \/ \E req \in IncomingMessages : ServerHandleRequest(1, req)
    \/ \E r \in Responses \cup {HandlerError} : HandlerSettles(1, r)
    \/ ServerRespond(1)
    \/ ServerFail(1)

SpecAdapter == InitServer /\ [][NextAdapter]_vars

\* A Server over a RequestHandler, one "request" event being served by the
\* middleware chain, and stop() called while the chain is suspended in a
\* unit with units still in the queue.
Suspended(c) ==
    /\ callSt[c] = "pending"
    /\ arrays[queueRef[c]] # <<>>
    /\ \E k \in 1 .. Len(frames[c]) : frames[c][k].st = "running"

NextInFlight ==
    \/ \E u \in Units : AddMiddleware(u)
    \/ Start(Number(3000))
    \/ Suspended(1) /\ Stop
    \/ Dispatch(1, PlainMessage)
    \/ \E k \in 1 .. Len(frames[1]) :
          /\ NextCalls(1, k) = 0
          /\ CallNext(1, k, frames[1][k].req)
    \/ \E k \in 1 .. Len(frames[1]) : Resume(1, k)
    \/ \E k \in 1 .. Len(frames[1]) :
          \E res \in UnitResults(1, k) : UnitSettle(1, k, res)
    \/ HandleSettle(1)
    \/ callSt[1] \in {"resolved", "rejected"} /\ HandlerSettles(1, outcome[1])
    \/ ServerRespond(1)
    \/ ServerFail(1)

SpecInFlight == InitServer /\ [][NextInFlight]_vars

\* ------------------------------------------------------------ properties
Started(c) == callSt[c] # "idle"
Settled(f) == f.st \in {"returned", "threw"}
IsUnit(f) == f.unit # NoUnit
\* the units whose process the call invoked, in the order of invocation
InvokedUnits(c) ==
    LET fs == SelectSeq(frames[c], IsUnit)
    IN [i \in 1 .. Len(fs) |-> fs[i].unit]
\* the units of the call keep to "call next at most once"
AtMostOnce(c) == \A k \in 1 .. Len(frames[c]) : NextCalls(c, k) <= 1
\* activation k is a unit that returned a response without calling next
ShortCircuit(c, k) ==
    /\ IsUnit(frames[c][k])
    /\ frames[c][k].st = "returned"
    /\ NextCalls(c, k) = 0

\* C1: a handle call on a non-empty list invokes the units in registration
\* order, starting with the first, and once a unit has returned a response
\* without calling next no unit registered after it is invoked (the units
\* calling next at most once, as their contract says).
C1_RegistrationOrder ==
    (Started(1) /\ atStart[1] # <<>>) =>
        LET inv == InvokedUnits(1)
        IN /\ Len(inv) >= 1
           /\ Len(inv) <= Len(atStart[1])
           /\ \A i \in 1 .. Len(inv) : inv[i] = atStart[1][i]
           /\ AtMostOnce(1) =>
                \A k \in 1 .. Len(frames[1]) :
                    ShortCircuit(1, k) => Len(frames[1]) = k

C1_Witness ==
    /\ callSt[1] = "resolved"
    /\ Len(atStart[1]) = 3
    /\ Len(frames[1]) = 2
    /\ ShortCircuit(1, 2)
    /\ outcome[1] = OwnResponse(1, 2)

Range(q) == {q[i] : i \in 1 .. Len(q)}

\* C2: copy on dispatch.  A handle call invokes only units that were
\* registered when it began, so a unit added later is never invoked by it;
\* a call begun after the addition has the unit at its appended position,
\* and invokes it when the unit before it calls next.
C2_CopyOnDispatch ==
    \A c \in Calls : Started(c) =>
        /\ \A k \in 1 .. Len(frames[c]) :
              IsUnit(frames[c][k]) => frames[c][k].unit \in Range(atStart[c])
        /\ \A k \in 1 .. Len(frames[c]) :
              (NextCalls(c, k) > 0 /\ k < Len(atStart[c])) =>
                  /\ Len(frames[c]) > k
                  /\ frames[c][k + 1].unit = atStart[c][k + 1]
        /\ \A i \in 1 .. Len(atStart[c]) : atStart[c][i] = added[i]

C2_Witness ==
    /\ atStart[1] = <<1>>
    /\ atStart[2] = <<1, 2>>
    /\ callSt[1] = "rejected"
    /\ outcome[1] = NoMiddlewareError
    /\ InvokedUnits(1) = <<1>>
    /\ InvokedUnits(2) = <<1, 2>>

\* C3: handle on an empty middleware list invokes no unit and its promise
\* is rejected with the "no middleware available" error.
C3_EmptyListFails ==
    \A c \in Calls : (Started(c) /\ atStart[c] = <<>>) =>
        /\ InvokedUnits(c) = <<>>
        /\ Len(frames[c]) = 1
        /\ frames[c][1].st = "threw"
        /\ frames[c][1].out = NoMiddlewareError
        /\ callSt[c] # "resolved"
        /\ callSt[c] = "rejected" => outcome[c] = NoMiddlewareError

C3_Witness ==
    /\ atStart[1] = <<>>
    /\ callSt[1] = "rejected"
    /\ outcome[1] = NoMiddlewareError
    /\ added # <<>>

\* C4: the unit invoked by next(request) is given the request passed to
\* next, and a unit further down is given it too when the units between
\* forward what they were given.
C4_ModifiedRequestSeen ==
    \A j \in 1 .. Len(frames[1]) :
        LET f == frames[1][j]
        IN (IsUnit(f) /\ f.parent # 0) =>
            /\ f.req = f.arg
            /\ LET p == frames[1][f.parent]
               IN (p.parent # 0 /\ f.arg = p.req) => f.req = p.arg

C4_Witness ==
    /\ Len(frames[1]) = 3
    /\ callReq[1] = "r1"
    /\ IsUnit(frames[1][3])
    /\ frames[1][2].parent = 1
    /\ frames[1][3].parent = 2
    /\ frames[1][2].arg = "r2"
    /\ frames[1][3].req = "r2"

\* C5: the dispatcher hands every failure on as it is: what a unit's await
\* of next yields is the result of the activation it awaited, and what
\* handle settles with is the result of the first activation, an error
\* being the very error that was thrown.
C5_ErrorsPropagate ==
    /\ \A k \in 1 .. Len(frames[1]) :
          frames[1][k].got # None =>
              frames[1][k].got = frames[1][frames[1][k].gotFrom].out
    /\ callSt[1] \in {"resolved", "rejected"} =>
          /\ outcome[1] = frames[1][1].out
          /\ (callSt[1] = "rejected") = (frames[1][1].st = "threw")
    /\ \A k \in 1 .. Len(frames[1]) :
          ~IsUnit(frames[1][k]) =>
              frames[1][k].st = "threw" /\ frames[1][k].out = NoMiddlewareError

C5_Witness ==
    /\ callSt[1] = "rejected"
    /\ outcome[1] = OwnError(1, 2)
    /\ frames[1][1].got = OwnError(1, 2)

\* C6: nested calls.  Activations start in registration order, a unit that
\* awaits next goes on only after the activation it awaited has settled and
\* settles after it, so (the units calling next at most once) a later
\* activation settles before an earlier one, and handle settles after them
\* all.
C6_NestedOrder ==
    /\ \A j \in 1 .. Len(frames[1]) :
          LET f == frames[1][j]
          IN /\ f.parent < j
             /\ IsUnit(f) => f.unit = atStart[1][j]
             /\ f.parent # 0 =>
                   (frames[1][f.parent].waitOn # j => Settled(f))
             /\ f.parent # 0 => (Settled(frames[1][f.parent]) => Settled(f))
    /\ AtMostOnce(1) =>
          \A i, j \in 1 .. Len(frames[1]) :
              (i < j /\ Settled(frames[1][i])) => Settled(frames[1][j])
    /\ callSt[1] \in {"resolved", "rejected"} =>
          \A j \in 1 .. Len(frames[1]) : Settled(frames[1][j])

C6_Witness ==
    /\ callSt[1] = "resolved"
    /\ Len(frames[1]) = 3
    /\ \A j \in 1 .. 3 : frames[1][j].st = "returned"
    /\ frames[1][1].gotFrom = 2
    /\ frames[1][2].gotFrom = 3

\* C7: overlapping handle calls share no dispatch state: every call has a
\* queue of its own, which is not the registered list, and at every moment
\* the units it has invoked followed by the units left in its queue are
\* the list it began with, whatever the other calls do.
C7_OwnQueue ==
    \A c \in Calls : Started(c) =>
        /\ queueRef[c] # MiddlewareRef
        /\ \A d \in Calls : (Started(d) /\ d # c) => queueRef[d] # queueRef[c]
        /\ InvokedUnits(c) \o arrays[queueRef[c]] = atStart[c]

C7_Witness ==
    /\ callSt[1] = "pending"
    /\ callSt[2] = "pending"
    /\ Len(InvokedUnits(1)) = 2
    /\ Len(InvokedUnits(2)) = 1
    /\ Len(atStart[1]) = 3
    /\ Len(atStart[2]) = 3
    /\ arrays[queueRef[1]] = <<3>>
    /\ arrays[queueRef[2]] = <<2, 3>>

\* C8 (header folding keeps every value of a repeated name) rests on what
\* Request.withHeader of apollo-http does with a name the Request already
\* has; Server.js only fixes the calls made, which BuildRequest records.

IsWriteHead(call) == call.fn = "writeHead"
WriteHeads(e) == SelectSeq(sink[e], IsWriteHead)

\* the place before the i-th of the values in their comma separated line
RECURSIVE Offset(_, _)
Offset(values, i) ==
    IF i = 1 THEN 0 ELSE Offset(values, i - 1) + Len(values[i - 1]) + 1

\* line is the values in their order, each followed by a comma but the last
IsCommaJoined(line, values) ==
    LET n == Len(values)
    IN /\ Len(line) = IF n = 0 THEN 0 ELSE Offset(values, n) + Len(values[n])
       /\ \A i \in 1 .. n :
             /\ \A p \in 1 .. Len(values[i]) :
                   line[Offset(values, i) + p] = values[i][p]
             /\ i < n => line[Offset(values, i) + Len(values[i]) + 1] = ","

\* C9: the header map given to writeHead has the names of the response's
\* headers, each once, and each with the values of that header in their
\* order, joined with commas.
C9_HeadersJoined ==
    evSt[1] = "written" =>
        /\ Len(WriteHeads(1)) = 1
        /\ LET given == WriteHeads(1)[1].args[3]
               headers == handled[1].headers
           IN /\ Len(given) = Len(headers)
              /\ \A i \in 1 .. Len(headers) :
                    /\ given[i][1] = headers[i][1]
                    /\ IsCommaJoined(given[i][2], headers[i][2])

C9_Witness ==
    /\ evSt[1] = "written"
    /\ handled[1].headers =
          <<<<"X-A", <<<<"1">>, <<"3">>>>>>, <<"X-B", <<<<"1">>>>>>>>
    /\ WriteHeads(1)[1].args[3] =
          <<<<"X-A", <<"1", ",", "3">>>>, <<"X-B", <<"1">>>>>>

IsListen(call) == call.fn = "listen"
IsClose(call) == call.fn = "close"
IsStart(op) == op.op = "start"
IsStop(op) == op.op = "stop"

\* C10: every start(port) makes one listen call on the node server, with
\* the port as its first argument (undefined when start is given none, so
\* that the node server chooses), and makes no close call.
C10_StartListens ==
    LET listens == SelectSeq(nodeCalls, IsListen)
        starts == SelectSeq(serverOps, IsStart)
    IN /\ Len(listens) = Len(starts)
       /\ \A i \in 1 .. Len(starts) :
             /\ Len(listens[i].args) >= 1
             /\ listens[i].args[1] = starts[i].port
       /\ Len(SelectSeq(nodeCalls, IsClose)) = Len(SelectSeq(serverOps, IsStop))

C10_Witness ==
    /\ Len(serverOps) = 3
    /\ serverOps[1] = [op |-> "start", port |-> Undefined]
    /\ serverOps[2].op = "stop"
    /\ serverOps[3] = [op |-> "start", port |-> Number(3000)]
    /\ nodeCalls[4].args = <<Undefined>>
    /\ nodeCalls[6].args = <<Number(3000)>>

\* the calls the Server made on the node server after its constructor
Registered == 3
AfterConstruction == SubSeq(nodeCalls, Registered + 1, Len(nodeCalls))

\* C11: every stop() makes exactly one close call on the node server and no
\* listen call: after any sequence of start and stop calls the node server
\* got one call per call on the Server, a close (without arguments) where
\* the call was stop and only there, so as many close calls as stop calls.
C11_StopCloses ==
    /\ Len(AfterConstruction) = Len(serverOps)
    /\ \A i \in 1 .. Len(serverOps) :
          /\ IsStop(serverOps[i]) =>
                AfterConstruction[i] = [fn |-> "close", args |-> <<>>]
          /\ IsClose(AfterConstruction[i]) => IsStop(serverOps[i])
    /\ Len(SelectSeq(AfterConstruction, IsClose))
          = Len(SelectSeq(serverOps, IsStop))

C11_Witness ==
    /\ Len(serverOps) = 3
    /\ IsStop(serverOps[1])
    /\ IsStart(serverOps[2])
    /\ IsStop(serverOps[3])
    /\ Len(SelectSeq(nodeCalls, IsClose)) = 2
    /\ Len(SelectSeq(nodeCalls, IsListen)) = 1

\* no Server was constructed: no scheme was determined, no observer was
\* registered on a node server, and no "request" event was handled
NoServerConstructed ==
    /\ nodeServer = "none"
    /\ urlScheme = "none"
    /\ nodeCalls = <<>>
    /\ serverOps = <<>>
    /\ \A e \in Events : evSt[e] = "none" /\ sink[e] = <<>>
    /\ \A i \in 1 .. Len(container) : container[i] # "server"

\* C12 as stated: without a server factory build() always fails with the
\* "no server factory provided" error, whatever the startup class does
C12_AlwaysNoServerFactoryError ==
    (serverFactory = Undefined /\ buildSt \in {"resolved", "rejected"}) =>
        /\ buildSt = "rejected"
        /\ buildOut = NoServerFactoryError
        /\ NoServerConstructed

\* C12: as long as no server factory is supplied build() never returns a
\* Server: no Server is constructed, no observer is registered and no
\* request is dispatched; when it settles it has failed, with the "no
\* server factory provided" error if it got as far as the test, which comes
\* after the startup class was constructed and configured, and with what
\* configure threw otherwise.
C12_NoServerFactoryFails ==
    serverFactory = Undefined =>
        /\ NoServerConstructed
        /\ buildSt # "resolved"
        /\ buildSt = "rejected" =>
              /\ buildOut \in {NoServerFactoryError, StartupError}
              /\ buildOut = StartupError =>
                    (startupInstance # Undefined
                        /\ startupInstance.configure = "throws")
              /\ (startupInstance = Undefined
                    \/ startupInstance.configure = "completes") =>
                    buildOut = NoServerFactoryError

C12_Witness ==
    /\ serverFactory = Undefined
    /\ buildSt = "rejected"
    /\ buildOut = NoServerFactoryError
    /\ startupInstance # Undefined
    /\ Len(container) = 9

\* C13: after any addMiddleware and handle calls the registered list is the
\* units passed to addMiddleware, in call order: addMiddleware appends and
\* returns the RequestHandler it was called on, and no step of a handle call
\* changes the list, so every handle call begins with all the units added
\* before it, however far earlier calls have consumed their queues.
C13_RegisteredList ==
    /\ arrays[MiddlewareRef] = added
    /\ Len(returned) = Len(added)
    /\ \A i \in 1 .. Len(returned) : returned[i] = This
    /\ \A c \in Calls : Started(c) =>
          /\ atStart[c] = SubSeq(added, 1, Len(atStart[c]))
          /\ frames[c][1].unit = IF atStart[c] = <<>> THEN NoUnit ELSE added[1]
          /\ \A d \in Calls :
                (d < c /\ Started(d)) => Len(atStart[d]) <= Len(atStart[c])

C13_Witness ==
    /\ callSt[1] = "resolved"
    /\ InvokedUnits(1) = <<1, 2, 3>>
    /\ arrays[queueRef[1]] = <<>>
    /\ Started(2)
    /\ atStart[2] = <<1, 2, 3>>
    /\ arrays[MiddlewareRef] = <<1, 2, 3>>
    /\ returned = <<This, This, This>>

\* every unit the call has invoked has called next
EveryUnitDelegates(c) ==
    /\ Started(c)
    /\ atStart[c] # <<>>
    /\ \A k \in 1 .. Len(frames[c]) :
          IsUnit(frames[c][k]) => NextCalls(c, k) >= 1
\* every unit that has settled handed on what its await of next gave it
EveryUnitPassesOn(c) ==
    \A k \in 1 .. Len(frames[c]) :
        (IsUnit(frames[c][k]) /\ Settled(frames[c][k])) =>
            frames[c][k].out = frames[c][k].got

\* C14: when every unit of a non-empty chain calls next, the last one
\* too, the queue is exhausted: the last next call fails with the "no
\* middleware available" error without invoking any unit, every unit was
\* invoked once and none again, and (the units handing on what next gave
\* them) handle is rejected with that very error.
C14_ExhaustedChainFails ==
    EveryUnitDelegates(1) =>
        /\ InvokedUnits(1) = atStart[1]
        /\ arrays[queueRef[1]] = <<>>
        /\ Len(frames[1]) > Len(atStart[1])
        /\ \A k \in 1 .. Len(frames[1]) :
              ~IsUnit(frames[1][k]) =>
                  /\ frames[1][k].st = "threw"
                  /\ frames[1][k].out = NoMiddlewareError
        /\ EveryUnitPassesOn(1) =>
              /\ callSt[1] # "resolved"
              /\ callSt[1] = "rejected" => outcome[1] = NoMiddlewareError

C14_Witness ==
    /\ EveryUnitDelegates(1)
    /\ EveryUnitPassesOn(1)
    /\ atStart[1] = <<1, 2, 3>>
    /\ Len(frames[1]) = 4
    /\ callSt[1] = "rejected"
    /\ outcome[1] = NoMiddlewareError

\* the activations of the call that invoked the unit at position i of the
\* list the call began with
InvocationsOf(c, i) ==
    {k \in 1 .. Len(frames[c]) : frames[c][k].unit = atStart[c][i]}

\* C15: whatever the units of a handle call do, calling next more than once
\* included, the unit at every position of the list the call began with is
\* invoked at most once, the positions are taken in order without a gap,
\* and the invocations are never more than the list is long.
C15_OncePerPosition ==
    Started(1) =>
        /\ \A i \in 1 .. Len(atStart[1]) : Cardinality(InvocationsOf(1, i)) <= 1
        /\ Len(InvokedUnits(1)) <= Len(atStart[1])
        /\ \A i \in 1 .. Len(atStart[1]) :
              (InvocationsOf(1, i) # {} /\ i > 1) => InvocationsOf(1, i - 1) # {}
        /\ Len(InvokedUnits(1)) + Len(arrays[queueRef[1]]) = Len(atStart[1])

C15_Witness ==
    /\ atStart[1] = <<1, 2, 3>>
    /\ NextCalls(1, 1) = 2
    /\ InvokedUnits(1) = <<1, 2, 3>>
    /\ Len(frames[1]) = 4
    /\ frames[1][4].parent = 3
    /\ ~IsUnit(frames[1][4])

IsPipe(call) == call.fn = "pipe"

\* C16: for every "request" event handle is called exactly once, with the
\* Request built from the message of that event; nothing is written to the
\* event's sink before handle has resolved, and once the routine has gone
\* on after it the sink got exactly one pipe, of the response's body, and
\* exactly one writeHead, with the response's status code and reason phrase.
C16_OneHandleOneWrite ==
    \A e \in Events :
        /\ evSt[e] = "none" => evRequest[e] = <<>>
        /\ evSt[e] # "none" => evRequest[e] = <<BuildRequest(e, evIn[e])>>
        /\ sink[e] # <<>> => (handled[e] # None /\ handled[e].type = "response")
        /\ evSt[e] # "written" => sink[e] = <<>>
        /\ evSt[e] = "written" =>
              /\ Len(SelectSeq(sink[e], IsPipe)) = 1
              /\ Len(WriteHeads(e)) = 1
              /\ Len(sink[e]) = 2
              /\ SelectSeq(sink[e], IsPipe)[1].args = <<handled[e].body>>
              /\ WriteHeads(e)[1].args[1] = handled[e].statusCode
              /\ WriteHeads(e)[1].args[2] = handled[e].reasonPhrase

C16_Witness ==
    /\ evSt[1] = "written"
    /\ evSt[2] = "awaiting"
    /\ handled[2] = None
    /\ Len(sink[1]) = 2
    /\ sink[2] = <<>>
    /\ Len(evRequest[1]) = 1
    /\ Len(evRequest[2]) = 1
    /\ evRequest[1] # evRequest[2]

Stopped == \E i \in 1 .. Len(serverOps) : IsStop(serverOps[i])
\* the step is a stop() call
StopStep ==
    /\ Len(serverOps') = Len(serverOps) + 1
    /\ IsStop(serverOps'[Len(serverOps')])
\* what is in flight can go on: a running unit can call next and can
\* settle, a unit whose next has settled can resume, and the response
\* handle resolved with can be written
GoesOn ==
    /\ \A k \in 1 .. Len(frames[1]) :
          frames[1][k].st = "running" =>
              /\ ENABLED UnitSettle(1, k, OwnResponse(1, k))
              /\ ENABLED CallNext(1, k, frames[1][k].req)
    /\ \A k \in 1 .. Len(frames[1]) :
          (frames[1][k].st = "waiting"
              /\ Settled(frames[1][frames[1][k].waitOn])) => ENABLED Resume(1, k)
    /\ (callSt[1] = "pending" /\ Settled(frames[1][1])) => ENABLED HandleSettle(1)
    /\ (evSt[1] = "awaiting" /\ handled[1] # None /\ handled[1].type = "response")
          => ENABLED ServerRespond(1)

\* C17: stop() aborts nothing that is in flight.  A stop() call leaves the
\* state of every request and of every handle call as it was, and after it
\* the suspended chain can go on as before: the units still run, and the
\* response handle resolves with is still written to the sink.
C17_StopAbortsNothing ==
    /\ [](Stopped => GoesOn)
    /\ [][StopStep =>
            UNCHANGED <<hvars, evSt, evIn, evRequest, handled, sink>>]_vars

C17_Witness ==
    /\ Stopped
    /\ evSt[1] = "written"
    /\ atStart[1] = <<1, 2, 3>>
    /\ InvokedUnits(1) = <<1, 2, 3>>
    /\ handled[1] = OwnResponse(1, 3)
    /\ sink[1] = SinkCalls(OwnResponse(1, 3))

HandleFailed(e) == handled[e] # None /\ handled[e].type = "error"

\* C18: when handle fails for a request the Server has no fallback: the
\* sink of that request never gets a pipe or a writeHead, the request
\* routine ends failed with nothing handling the failure, and the other
\* requests are served as if it had not happened: theirs is written when
\* handle resolved for them, and can be written while it is still to be.
C18_NoFallback ==
    \A e \in Events :
        /\ HandleFailed(e) =>
              /\ sink[e] = <<>>
              /\ evSt[e] \in {"awaiting", "failed"}
              /\ evSt[e] = "awaiting" => ENABLED ServerFail(e)
        /\ evSt[e] = "failed" => HandleFailed(e)
        /\ (handled[e] # None /\ handled[e].type = "response") =>
              /\ evSt[e] = "awaiting" => ENABLED ServerRespond(e)
              /\ evSt[e] # "awaiting" =>
                    (evSt[e] = "written" /\ sink[e] = SinkCalls(handled[e]))

C18_Witness ==
    /\ evSt[1] = "failed"
    /\ handled[1] = HandlerError
    /\ sink[1] = <<>>
    /\ evSt[2] = "written"
    /\ sink[2] = SinkCalls(PlainResponse)

HandleSettled(c) == callSt[c] \in {"resolved", "rejected"}

\* C19: with units that in the end return, throw or call next (once) and
\* then in the end return or throw, every handle call settles, and it has
\* invoked at most as many units as the list it began with is long: the
\* dispatcher waits for nothing but the units.
C19_HandleSettles ==
    /\ \A c \in Calls : Started(c) ~> HandleSettled(c)
    /\ [](\A c \in Calls : Len(InvokedUnits(c)) <= Len(atStart[c]))

C19_Witness ==
    /\ HandleSettled(1)
    /\ HandleSettled(2)
    /\ Len(atStart[1]) = 3
    /\ Len(InvokedUnits(1)) = 3
    /\ Len(frames[1]) = 4
    /\ callSt[1] = "rejected"
    /\ Len(atStart[2]) = 3
    /\ Len(InvokedUnits(2)) = 3
    /\ callSt[2] = "resolved"

\* C20: the scheme is the one of the kind of node server the Server was
\* constructed over, https for an https server and http otherwise; no start,
\* stop or "request" event changes it, and the URL of every Request built
\* is that scheme, "://", the host header and the raw target.
C20_SchemeFixed ==
    /\ [](/\ urlScheme = IF nodeServer = "https" THEN "https" ELSE "http"
          /\ \A e \in Events : \A i \in 1 .. Len(evRequest[e]) :
                evRequest[e][i].url
                    = <<urlScheme, "://", evIn[e].host, evIn[e].url>>)
    /\ [][urlScheme' = urlScheme /\ nodeServer' = nodeServer]_vars

C20_Witness ==
    /\ nodeServer = "https"
    /\ urlScheme = "https"
    /\ Len(serverOps) = 3
    /\ Stopped
    /\ \E i \in 1 .. Len(serverOps) : IsStart(serverOps[i])
    /\ evSt[1] = "written"
    /\ evSt[2] = "awaiting"
    /\ evRequest[2][1].url = <<"https", "://", "localhost", "/">>

\* C21: the next handler given to a unit is a request handler: a call of
\* next.handle(request) is the very step a call of next(request) is, on the
\* same queue: it invokes the same unit with the same request, or fails
\* with the same error on the empty queue, and the unit gets its result the
\* same way; so every call of next, either way, made one activation.
C21_HandleIsCall ==
    /\ [](Started(1) => Len(frames[1]) = 1 + Len(ways[1]))
    /\ [](\A j \in 2 .. Len(frames[1]) :
            /\ frames[1][j].unit = IF j <= Len(atStart[1]) THEN atStart[1][j]
                                   ELSE NoUnit
            /\ IsUnit(frames[1][j]) => frames[1][j].req = frames[1][j].arg)
    /\ [][\A k \in 1 .. Len(frames[1]) : \A r \in Requests :
            CallNextVia(1, k, r, "next.handle(request)") =>
                /\ NextStep(1, k, r)
                /\ UNCHANGED <<added, callSt, callReq, atStart, queueRef, outcome,
                               returned, svars, bvars>>]_vars

C21_Witness ==
    /\ ways[1] = <<"next.handle(request)", "next(request)", "next.handle(request)">>
    /\ atStart[1] = <<1, 2, 3>>
    /\ InvokedUnits(1) = <<1, 2, 3>>
    /\ frames[1][2].req = "r2"
    /\ frames[1][4].out = NoMiddlewareError
    /\ callSt[1] = "rejected"
    /\ outcome[1] = NoMiddlewareError
====
